---- MODULE Spec2Model ----
(***************************************************************************)
(* Model of the HUFS clock API (src/index.py): the scraping extractors     *)
(* (schedule, notices, meals), the weather reduction, the timetable        *)
(* parameter overlay and the aggregate endpoints.                          *)
(*                                                                         *)
(* Texts are modelled as sequences: a date string is the sequence of its   *)
(* code points (so that Python's string comparison is lexicographic        *)
(* comparison of sequences), a menu text is a sequence of tokens.          *)
(***************************************************************************)
EXTENDS Integers, Sequences, FiniteSets, TLC

VARIABLES
    \* _crawl_meals_by_campus: the date, the campus, the upstream response,
    \* the posted form, the returned slots, the position
    today, campus_path, mealResp, payload, meals, mpc,
    \* crawl_notices: the rows of the board, the upstream response of the
    \* crawl, the returned notices, the position
    page, boardResp, notices, npc,
    \* get_all_data / get_global_data: the endpoint, the position, the three
    \* other upstream responses, the locals of the handler, its response and
    \* the number of requests sent to each upstream
    endpoint, pc, upSchedule, upGeneral, upHaksa,
    schedule, general_notices, haksa_notices, all_notices, response, calls,
    \* get_weather: the two upstream responses, the returned value, the position
    curResp, fcResp, weather, wpc,
    \* search_timetable: the request, the posted form, the status, the position
    req, posted, tstatus, tpc

mealVars == <<today, campus_path, mealResp, payload, meals, mpc>>
noticeVars == <<page, boardResp, notices, npc>>
aggVars == <<endpoint, pc, upSchedule, upGeneral, upHaksa,
             schedule, general_notices, haksa_notices, all_notices, response, calls>>

weatherVars == <<curResp, fcResp, weather, wpc>>
timetableVars == <<req, posted, tstatus, tpc>>

vars == <<mealVars, noticeVars, aggVars, weatherVars, timetableVars>>

----------------------------------------------------------------------------
(* Generic helpers                                                         *)

Range(s) == {s[i] : i \in DOMAIN s}

SeqsUpTo(S, n) == UNION {[1..k -> S] : k \in 0..n}

\* Python's None where a text or a tag is expected (find() that found nothing):
\* a sequence that is no text.
None == <<"None">>

----------------------------------------------------------------------------
(* An upstream HTTP response is [transport, status, body]: the request may *)
(* fail in transport (timeout, connection error: requests raises), or      *)
(* yield a status (raise_for_status raises from 400 on) and a parsed body. *)

Failed(resp) == resp.transport # "ok" \/ resp.status >= 400

----------------------------------------------------------------------------
(* datetime arithmetic used by _crawl_meals_by_campus (lines 218-254)      *)

LastYear == 2027
Years == 2024..LastYear

IsLeap(y) == (y % 4 = 0) /\ ((y % 100 # 0) \/ (y % 400 = 0))

DaysInMonth(y, m) ==
    IF m = 2 THEN (IF IsLeap(y) THEN 29 ELSE 28)
    ELSE IF m \in {4, 6, 9, 11} THEN 30 ELSE 31

Date(y, m, d) == [year |-> y, month |-> m, day |-> d]

\* every calendar date of the modelled years
AllDates ==
    {dt \in [year : Years, month : 1..12, day : 1..31] :
        dt.day <= DaysInMonth(dt.year, dt.month)}

\* date.toordinal(): days since 0001-01-01 (which has ordinal 1)
DaysBeforeYear(y) ==
    365 * (y - 1) + ((y - 1) \div 4) - ((y - 1) \div 100) + ((y - 1) \div 400)

RECURSIVE DaysBeforeMonth(_, _)
DaysBeforeMonth(y, m) ==
    IF m = 1 THEN 0 ELSE DaysBeforeMonth(y, m - 1) + DaysInMonth(y, m - 1)

ToOrdinal(dt) == DaysBeforeYear(dt.year) + DaysBeforeMonth(dt.year, dt.month) + dt.day

\* date.weekday(): Monday is 0, Sunday is 6
Weekday(dt) == (ToOrdinal(dt) + 6) % 7

NextDay(dt) ==
    IF dt.day < DaysInMonth(dt.year, dt.month) THEN Date(dt.year, dt.month, dt.day + 1)
    ELSE IF dt.month < 12 THEN Date(dt.year, dt.month + 1, 1)
    ELSE Date(dt.year + 1, 1, 1)

PrevDay(dt) ==
    IF dt.day > 1 THEN Date(dt.year, dt.month, dt.day - 1)
    ELSE IF dt.month > 1 THEN Date(dt.year, dt.month - 1, DaysInMonth(dt.year, dt.month - 1))
    ELSE Date(dt.year - 1, 12, 31)

\* dt + timedelta(days=k), k of either sign
RECURSIVE AddDays(_, _)
AddDays(dt, k) ==
    IF k = 0 THEN dt
    ELSE IF k > 0 THEN AddDays(NextDay(dt), k - 1)
    ELSE AddDays(PrevDay(dt), k + 1)

----------------------------------------------------------------------------
(* _crawl_meals_by_campus, step 1: the week window (lines 218-262)         *)

StartOfWeek(t) == AddDays(t, 0 - Weekday(t))

EndOfWeek(t) == AddDays(StartOfWeek(t), 5)

\* datetime(today.year + 1, 1, 1) / datetime(today.year, today.month + 1, 1)
NextMonthFirst(t) ==
    IF t.month = 12 THEN Date(t.year + 1, 1, 1) ELSE Date(t.year, t.month + 1, 1)

\* (next_month - timedelta(days=1)).day
LastDayOfTodaysMonth(t) == AddDays(NextMonthFirst(t), -1).day

WeekFirstDayNoClamp(t) == StartOfWeek(t).day

WeekFirstDay(t) ==
    IF StartOfWeek(t).month = t.month /\ EndOfWeek(t).month = t.month
        THEN StartOfWeek(t).day
    ELSE IF StartOfWeek(t).month = t.month THEN StartOfWeek(t).day
    ELSE IF EndOfWeek(t).month = t.month THEN 1
    ELSE 1

WeekLastDayNoClamp(t) == EndOfWeek(t).day

WeekLastDay(t) ==
    IF StartOfWeek(t).month = t.month /\ EndOfWeek(t).month = t.month
        THEN EndOfWeek(t).day
    ELSE IF StartOfWeek(t).month = t.month THEN LastDayOfTodaysMonth(t)
    ELSE IF EndOfWeek(t).month = t.month THEN EndOfWeek(t).day
    ELSE LastDayOfTodaysMonth(t)

CafId(campus) == IF campus = "1" THEN "h101" ELSE "h203"

MealPayload(campus, t) ==
    [selCafId |-> CafId(campus),
     selWeekFirstDay |-> WeekFirstDay(t),
     selWeekLastDay |-> WeekLastDay(t),
     selYear |-> t.year,
     selMonth |-> t.month]

----------------------------------------------------------------------------
(* Text of the cafeteria table.  A text is a sequence of tokens:           *)
(*   "sp"  a whitespace character      "nl"  a newline                     *)
(*   "dish" ordinary menu text         "won" a price text                  *)
(*   "nomenu"   the phrase "등록된 메뉴가"                                 *)
(*   "vacation" the phrase "방학중에는"   "vac" the label "방학"           *)
(*   "event"    the phrase "** 이벤트 데이 **"                             *)
(*   "breakfast" the label "조식"         "lunch" the label "중식"         *)

IsSpace(tok) == tok \in {"sp", "nl"}

RECURSIVE LStrip(_)
LStrip(t) == IF t # <<>> /\ IsSpace(Head(t)) THEN LStrip(Tail(t)) ELSE t

RECURSIVE RStrip(_)
RStrip(t) ==
    IF t # <<>> /\ IsSpace(t[Len(t)]) THEN RStrip(SubSeq(t, 1, Len(t) - 1)) ELSE t

\* str.strip()
Strip(t) == RStrip(LStrip(t))

\* phrase in text
Contains(t, tok) == tok \in Range(t)

\* sep.join(texts)
RECURSIVE Join(_, _)
Join(texts, sep) ==
    IF texts = <<>> THEN <<>>
    ELSE IF Len(texts) = 1 THEN texts[1]
    ELSE texts[1] \o <<sep>> \o Join(Tail(texts), sep)

\* the stripped, non-empty strings of a list of text nodes
RECURSIVE StrippedStrings(_)
StrippedStrings(nodes) ==
    IF nodes = <<>> THEN <<>>
    ELSE (IF Strip(Head(nodes)) = <<>> THEN <<>> ELSE <<Strip(Head(nodes))>>)
         \o StrippedStrings(Tail(nodes))

\* element.get_text(separator=sep, strip=True) over the element's text nodes
GetText(nodes, sep) == Join(StrippedStrings(nodes), sep)

\* get_text(strip=True): the stripped strings joined by the empty separator
RECURSIVE Concat(_)
Concat(texts) == IF texts = <<>> THEN <<>> ELSE Head(texts) \o Concat(Tail(texts))

GetTextNoSep(nodes) == Concat(StrippedStrings(nodes))

\* the text nodes of a <li>: its strong.point child (if any), then its own text
LiNodes(li) == (IF li.strong = None THEN <<>> ELSE <<li.strong>>) \o <<li.text>>

\* td.select('ul > li > strong.point'), as their get_text(strip=True)
RECURSIVE StrongTexts(_)
StrongTexts(lis) ==
    IF lis = <<>> THEN <<>>
    ELSE (IF Head(lis).strong = None THEN <<>> ELSE <<GetTextNoSep(<<Head(lis).strong>>)>>)
         \o StrongTexts(Tail(lis))

LiTexts(lis) == [i \in 1..Len(lis) |-> GetText(LiNodes(lis[i]), "sp")]

\* td.select_one('ul > li:nth-child(1) > strong.point')
EventDayTag(td) == IF td.lis = <<>> THEN None ELSE td.lis[1].strong

IsEventDay(campus, td) ==
    /\ campus = "2"
    /\ EventDayTag(td) # None
    /\ Contains(GetTextNoSep(<<EventDayTag(td)>>), "event")

\* lines 291-313: the name of one data cell before the vacation substitution
RawMenuName(campus, td) ==
    IF IsEventDay(campus, td)
        THEN (IF Len(td.lis) >= 2 THEN GetText(LiNodes(td.lis[2]), "nl") ELSE <<>>)
    ELSE IF td.lis # <<>>
        THEN (IF StrongTexts(td.lis) # <<>>
                 THEN Join(StrongTexts(td.lis), "nl")
                 ELSE Join(LiTexts(td.lis), "nl"))
    ELSE GetText(<<td.text>>, "nl")

\* line 312: pay_tag.decompose() happens only in the plain-text shape
PayDecomposed(campus, td) == ~IsEventDay(campus, td) /\ td.lis = <<>> /\ td.pay # None

\* line 315: a decomposed tag is still a tag, but it has no text left
MenuPrice(campus, td) ==
    IF td.pay = None THEN <<>>
    ELSE IF PayDecomposed(campus, td) THEN GetTextNoSep(<<>>)
    ELSE GetTextNoSep(<<td.pay>>)

\* lines 318-319
MenuName(campus, meal_time, td) ==
    IF campus = "1" /\ Contains(meal_time, "breakfast")
                    /\ Contains(RawMenuName(campus, td), "vacation")
        THEN <<"vac">>
        ELSE RawMenuName(campus, td)

\* line 325
MenuSkippedMarkerOnly(name) == Contains(name, "nomenu")

MenuSkipped(name) == Contains(name, "nomenu") \/ Strip(name) = <<>>

\* lines 289-330: the menus of one row
RECURSIVE RowMenus(_, _, _)
RowMenus(campus, meal_time, tds) ==
    IF tds = <<>> THEN <<>>
    ELSE (IF MenuSkipped(MenuName(campus, meal_time, Head(tds)))
             THEN <<>>
             ELSE <<[name |-> MenuName(campus, meal_time, Head(tds)),
                     price |-> MenuPrice(campus, Head(tds))]>>)
         \o RowMenus(campus, meal_time, Tail(tds))

\* lines 281-332
RECURSIVE ParseMealRows(_, _)
ParseMealRows(campus, rows) ==
    IF rows = <<>> THEN <<>>
    ELSE (IF Head(rows).th = None \/ Head(rows).tds = <<>>
             THEN <<>>
             ELSE <<[time |-> GetTextNoSep(<<Head(rows).th>>),
                     menus |-> RowMenus(campus, GetTextNoSep(<<Head(rows).th>>),
                                        Head(rows).tds)]>>)
         \o ParseMealRows(campus, Tail(rows))

\* lines 214-337: the try block with its except handler
crawl_meals_by_campus(campus, t, resp) ==
    IF Failed(resp) THEN <<>> ELSE ParseMealRows(campus, resp.body)

----------------------------------------------------------------------------
(* crawl_schedule and _extract_schedule_dates (lines 134-179)              *)
(* Tokens of the calendar texts: "~" the range dash, "sp" whitespace,      *)
(*   "sem1" 제1학기   "sem2" 제2학기   "start" 개강   "opening" 학기개시일 *)
(*   "final" 기말시험 (so 제1학기 기말시험 is <<"sem1", "sp", "final">>),  *)
(*   any other token is ordinary text.                                     *)

\* a dict with no key
EmptyDict == [k \in {} |-> <<>>]

\* d[key] = value
DictSet(d, key, value) ==
    [k \in DOMAIN d \cup {key} |-> IF k = key THEN value ELSE d[k]]

\* phrase in text, for a phrase of several tokens
ContainsPhrase(t, phrase) ==
    \E i \in 1..Len(t) : i + Len(phrase) - 1 <= Len(t)
                         /\ SubSeq(t, i, i + Len(phrase) - 1) = phrase

\* text.split(sep)
RECURSIVE SplitFrom(_, _, _)
SplitFrom(t, sep, acc) ==
    IF t = <<>> THEN <<acc>>
    ELSE IF Head(t) = sep THEN <<acc>> \o SplitFrom(Tail(t), sep, <<>>)
    ELSE SplitFrom(Tail(t), sep, Append(acc, Head(t)))

Split(t, sep) == SplitFrom(t, sep, <<>>)

\* lines 167-169
DateParts(date_text) ==
    LET parts == Split(date_text, "~") IN [i \in 1..Len(parts) |-> Strip(parts[i])]

FirstDate(date_text) == DateParts(date_text)[1]
LastDate(date_text) == DateParts(date_text)[Len(DateParts(date_text))]

IsStartEvent(event_str) == Contains(event_str, "start") \/ Contains(event_str, "opening")

\* lines 171-178: the milestone a (date, event) pair sets, None when it sets none
MilestoneKey(event_str) ==
    IF Contains(event_str, "sem1") /\ IsStartEvent(event_str) THEN "first_start"
    ELSE IF ContainsPhrase(event_str, <<"sem1", "sp", "final">>) THEN "first_end"
    ELSE IF Contains(event_str, "sem2") /\ IsStartEvent(event_str) THEN "second_start"
    ELSE IF ContainsPhrase(event_str, <<"sem2", "sp", "final">>) THEN "second_end"
    ELSE "none"

\* the variant that keeps the last segment for every milestone
MilestoneDateAlwaysLast(key, date_text) == LastDate(date_text)

MilestoneDate(key, date_text) ==
    IF key \in {"first_start", "second_start"} THEN FirstDate(date_text)
    ELSE LastDate(date_text)

Min(a, b) == IF a <= b THEN a ELSE b

\* zip(date_elems, event_elems) of one list item, texts already get_text(strip=True)
ZipPairs(item) ==
    [i \in 1..Min(Len(item.dates), Len(item.events)) |->
        [date |-> Strip(item.dates[i]), event |-> Strip(item.events[i])]]

RECURSIVE ApplyPairs(_, _)
ApplyPairs(d, pairs) ==
    IF pairs = <<>> THEN d
    ELSE LET key == MilestoneKey(Head(pairs).event)
         IN ApplyPairs(IF key = "none" THEN d
                       ELSE DictSet(d, key, MilestoneDate(key, Head(pairs).date)),
                       Tail(pairs))

RECURSIVE ExtractFrom(_, _)
ExtractFrom(d, items) ==
    IF items = <<>> THEN d
    ELSE ExtractFrom(ApplyPairs(d, ZipPairs(Head(items))), Tail(items))

extract_schedule_dates(items) == ExtractFrom(EmptyDict, items)

\* lines 134-155: the body of a calendar page is [container, items]; the
\* missing container raises ValueError, which the handler turns into {}
crawl_schedule_nohandler(resp) ==
    IF Failed(resp) \/ ~resp.body.container THEN [error |-> "raised"]
    ELSE extract_schedule_dates(resp.body.items)

crawl_schedule(resp) ==
    IF Failed(resp) THEN EmptyDict
    ELSE IF ~resp.body.container THEN EmptyDict
    ELSE extract_schedule_dates(resp.body.items)

----------------------------------------------------------------------------
(* crawl_notices (lines 181-212)                                           *)
(* A table row is [pinned, subject, date, anchor]: pinned is class         *)
(* "notice", subject is whether td.td-subject exists, date is the text of  *)
(* td.td-date (NoDate without the cell), anchor is the <a> of the subject  *)
(* cell (NoAnchor without it): [tag, href, strong, text, new].  A date     *)
(* text is the sequence of its code points.                                *)

HUFS_DOMAIN == <<"https://www.hufs.ac.kr">>

NoticeCap == 10

\* soup.select("tbody tr:not(.notice)")
RECURSIVE SelectNotPinned(_)
SelectNotPinned(rows) ==
    IF rows = <<>> THEN <<>>
    ELSE (IF Head(rows).pinned THEN <<>> ELSE <<Head(rows)>>) \o SelectNotPinned(Tail(rows))

\* notice_rows[:10]
FirstRows(rows, n) == SubSeq(rows, 1, Min(n, Len(rows)))

\* a row without td.td-date, a subject cell without <a>
NoDate == <<0 - 1>>
NoAnchor == [tag |-> "none", href |-> None, strong |-> None, text |-> <<>>, new |-> FALSE]

\* line 193
RowSkipped(row) == ~(row.subject /\ row.date # NoDate /\ row.anchor.tag = "a")

\* lines 200-205
NoticeTitle(a) ==
    (IF a.strong # None THEN GetTextNoSep(<<a.strong>>) ELSE GetTextNoSep(<<a.text>>))
    \o (IF a.new THEN <<" (NEW)">> ELSE <<>>)

\* line 207
NoticeOf(row) ==
    [date |-> row.date, title |-> NoticeTitle(row.anchor),
     link |-> HUFS_DOMAIN \o row.anchor.href]

RECURSIVE NoticesOf(_)
NoticesOf(rows) ==
    IF rows = <<>> THEN <<>>
    ELSE (IF RowSkipped(Head(rows)) THEN <<>> ELSE <<NoticeOf(Head(rows))>>)
         \o NoticesOf(Tail(rows))

\* line 196: a_tag['href'] raises KeyError for an anchor without href
RaisesKeyError(rows) ==
    \E i \in DOMAIN rows : ~RowSkipped(rows[i]) /\ rows[i].anchor.href = None

\* the rows the loop of line 190 visits
VisitedRows(body) == FirstRows(SelectNotPinned(body), NoticeCap)

crawl_notices(resp) ==
    IF Failed(resp) THEN <<>>
    ELSE IF RaisesKeyError(VisitedRows(resp.body)) THEN <<>>
    ELSE NoticesOf(VisitedRows(resp.body))

----------------------------------------------------------------------------
(* _get_common_data: the merge and sort of lines 378-382                   *)

\* Python's < on strings: lexicographic on code points
RECURSIVE StrLess(_, _)
StrLess(a, b) ==
    IF b = <<>> THEN FALSE
    ELSE IF a = <<>> THEN TRUE
    ELSE IF Head(a) < Head(b) THEN TRUE
    ELSE IF Head(a) > Head(b) THEN FALSE
    ELSE StrLess(Tail(a), Tail(b))

\* "0000-00-00"
DateSentinel == <<48, 48, 48, 48, 45, 48, 48, 45, 48, 48>>

\* x.get('date', '0000-00-00')
SortKey(x) == IF "date" \in DOMAIN x THEN x.date ELSE DateSentinel

\* sorted(..., reverse=True) is stable: an element goes after every element
\* whose key is not smaller than its own
RECURSIVE InsertDesc(_, _)
InsertDesc(sorted, x) ==
    IF sorted = <<>> THEN <<x>>
    ELSE IF StrLess(SortKey(Head(sorted)), SortKey(x)) THEN <<x>> \o sorted
    ELSE <<Head(sorted)>> \o InsertDesc(Tail(sorted), x)

RECURSIVE SortFrom(_, _)
SortFrom(sorted, rest) ==
    IF rest = <<>> THEN sorted ELSE SortFrom(InsertDesc(sorted, Head(rest)), Tail(rest))

Reverse(s) == [i \in 1..Len(s) |-> s[Len(s) + 1 - i]]

RECURSIVE InsertAsc(_, _)
InsertAsc(sorted, x) ==
    IF sorted = <<>> THEN <<x>>
    ELSE IF StrLess(SortKey(x), SortKey(Head(sorted))) THEN <<x>> \o sorted
    ELSE <<Head(sorted)>> \o InsertAsc(Tail(sorted), x)

RECURSIVE SortAscFrom(_, _)
SortAscFrom(sorted, rest) ==
    IF rest = <<>> THEN sorted ELSE SortAscFrom(InsertAsc(sorted, Head(rest)), Tail(rest))

\* the ascending stable sort read backwards: equal dates come out reversed
SortNoticesReversedAscending(general, haksa) == Reverse(SortAscFrom(<<>>, general \o haksa))

SortNotices(general, haksa) == SortFrom(<<>>, general \o haksa)

----------------------------------------------------------------------------
(* get_weather (lines 446-623)                                             *)
(* A weather response is [transport, status, json, items]: json is "ok",   *)
(* "invalid" (response.json() raises) or "nostructure" (a key of           *)
(* response.body.items.item is missing).  fcstDate is "D0" for today_str,  *)
(* "D1" for tomorrow_str, "D2" for a later day; fcstTime is the sequence   *)
(* of the code points of "HHMM".                                           *)

TodayStr == "D0"
TomorrowStr == "D1"

\* line 461
ForecastTime == <<50, 51, 48, 48>>

\* lines 561-562
TargetDate == IF ForecastTime = <<50, 51, 48, 48>> THEN TomorrowStr ELSE TodayStr

\* lines 513-520
InitialResult ==
    [temp |-> "-", humidity |-> "-", rainType |-> "0", sky |-> "-",
     tmn |-> "-", tmx |-> "-"]

\* lines 523-529
RECURSIVE ParseCurrent(_, _)
ParseCurrent(result, items) ==
    IF items = <<>> THEN result
    ELSE LET item == Head(items)
         IN ParseCurrent(
                IF item.category = "T1H" THEN [result EXCEPT !.temp = item.obsrValue]
                ELSE IF item.category = "REH" THEN [result EXCEPT !.humidity = item.obsrValue]
                ELSE IF item.category = "PTY" THEN [result EXCEPT !.rainType = item.obsrValue]
                ELSE result,
                Tail(items))

\* lines 564-569: the locals of the forecast loop
ForecastStart(result) ==
    [result |-> result, sky_time |-> <<48, 48, 48, 48>>, sky_date |-> "",
     tmn_found |-> FALSE, tmx_found |-> FALSE]

\* lines 576-590
SkyStep(st, item) ==
    IF item.fcstDate = TodayStr
        THEN (IF StrLess(st.sky_time, item.fcstTime)
                 THEN [st EXCEPT !.result.sky = item.fcstValue,
                                 !.sky_time = item.fcstTime,
                                 !.sky_date = item.fcstDate]
                 ELSE st)
    ELSE IF item.fcstDate = TomorrowStr
        THEN (IF st.sky_date = "" \/ (st.sky_date = TomorrowStr
                                        /\ StrLess(st.sky_time, item.fcstTime))
                 THEN [st EXCEPT !.result.sky = item.fcstValue,
                                 !.sky_time = item.fcstTime,
                                 !.sky_date = item.fcstDate]
                 ELSE st)
    ELSE st

\* lines 591-600
TmnStep(st, item) ==
    IF item.fcstDate = TargetDate /\ ~st.tmn_found
        THEN [st EXCEPT !.result.tmn = item.fcstValue, !.tmn_found = TRUE]
        ELSE st

TmxStep(st, item) ==
    IF item.fcstDate = TargetDate /\ ~st.tmx_found
        THEN [st EXCEPT !.result.tmx = item.fcstValue, !.tmx_found = TRUE]
        ELSE st

\* lines 571-600
RECURSIVE ParseForecast(_, _)
ParseForecast(st, items) ==
    IF items = <<>> THEN st
    ELSE LET item == Head(items)
         IN ParseForecast(
                IF item.category = "SKY" THEN SkyStep(st, item)
                ELSE IF item.category = "TMN" THEN TmnStep(st, item)
                ELSE IF item.category = "TMX" THEN TmxStep(st, item)
                ELSE st,
                Tail(items))

\* lines 617-623: an error response has a message and no data
WeatherError(kind) == [status |-> "error", message |-> kind]

\* lines 609-615
WeatherSuccess(result) == [status |-> "success", data |-> result]

\* lines 490-623.  Line 607 reads tmx_candidates, a name that is bound
\* nowhere: when no TMX was found the debug print raises NameError, which
\* the handler of line 622 turns into an error response.
get_weather(cur, fc) ==
    IF cur.transport # "ok" THEN WeatherError("unknown")
    ELSE IF cur.status >= 400 THEN WeatherError("http")
    ELSE IF cur.json # "ok" THEN WeatherError("json")
    ELSE IF fc.transport # "ok" THEN WeatherError("unknown")
    ELSE IF fc.status >= 400 THEN WeatherError("http")
    ELSE IF fc.json = "invalid" THEN WeatherError("json")
    ELSE IF fc.json = "nostructure"
        THEN WeatherSuccess(ParseCurrent(InitialResult, cur.items))
    ELSE LET st == ParseForecast(ForecastStart(ParseCurrent(InitialResult, cur.items)),
                                 fc.items)
         IN IF ~st.tmx_found THEN WeatherError("unknown")
            ELSE WeatherSuccess(st.result)

----------------------------------------------------------------------------
(* search_timetable (lines 626-688): the posted parameter set              *)
(* A dict is a function from keys to values; req.days and req.times are    *)
(* [isNone, map].                                                          *)

DayKeys == <<"d1", "d2", "d3", "d4", "d5", "d6">>
TimeKeys == <<"t1", "t2", "t3", "t4", "t5", "t6", "t7", "t8", "t9", "t10", "t11", "t12">>

\* dict.update
DictUpdate(d, other) ==
    [k \in DOMAIN d \cup DOMAIN other |-> IF k \in DOMAIN other THEN other[k] ELSE d[k]]

\* line 641: {f"d{i}": "N" for i in range(1, 7)}
DayFlagDefaults == [k \in {DayKeys[i] : i \in 1..6} |-> "N"]

\* line 642: {f"t{i}": "N" for i in range(1, 13)}
TimeFlagDefaultsShort == [k \in {TimeKeys[i] : i \in 1..11} |-> "N"]

TimeFlagDefaults == [k \in {TimeKeys[i] : i \in 1..12} |-> "N"]

\* lines 628-643
FixedParams(r) ==
    [mName |-> "getDataLssnLista", cName |-> "hufs.stu1.STU1_C009", org_sect |-> "A",
     ledg_year |-> r.year, ledg_sessn |-> r.semester, campus |-> r.campus,
     crs_strct_cd |-> r.dept_code, gubun |-> r.gubun, subjt_nm |-> r.keyword,
     won |-> "", cyber |-> "", emp_nm |-> r.professor]

TemplateParams(r) == DictUpdate(DictUpdate(FixedParams(r), DayFlagDefaults), TimeFlagDefaults)

\* `if req.days:` is false for None and for the empty dict
Truthy(opt) == ~opt.isNone /\ DOMAIN opt.map # {}

\* lines 646-649
FullParams(r) ==
    LET withDays == IF Truthy(r.days) THEN DictUpdate(TemplateParams(r), r.days.map)
                    ELSE TemplateParams(r)
    IN  IF Truthy(r.times) THEN DictUpdate(withDays, r.times.map) ELSE withDays

----------------------------------------------------------------------------
(* Inputs of the meal extractor                                            *)

\* the cafeteria table of a run has at most MaxMealRows rows, MaxCells data
\* cells and MaxLis list items in all
MaxMealRows == 1
MaxCells == 1
MaxLis == 2

\* cell texts: none, a dish in whitespace, "no menu registered", the
\* vacation notice
MenuTextSet == {<<>>, <<"sp", "dish", "sp">>, <<"nomenu", "dish">>, <<"vacation", "dish">>}
PaySet == {None, <<"won">>}
ThSet == {None, <<"breakfast">>, <<"lunch">>}

\* list items: plain, "no menu registered", the event-day marker, a
\* highlighted dish followed by text, an empty highlight
LiSet ==
    {[strong |-> None, text |-> <<"dish">>],
     [strong |-> None, text |-> <<"nomenu">>],
     [strong |-> <<"event">>, text |-> <<>>],
     [strong |-> <<"dish">>, text |-> <<"dish">>],
     [strong |-> <<>>, text |-> <<"sp">>]}

TransportFailure == [transport |-> "timeout", status |-> 0, body |-> <<>>]
HttpFailure(body) == [transport |-> "ok", status |-> 500, body |-> body]
HttpOk(body) == [transport |-> "ok", status |-> 200, body |-> body]

RECURSIVE SumOf(_)
SumOf(ns) == IF ns = <<>> THEN 0 ELSE Head(ns) + SumOf(Tail(ns))

CellCount(rows) == SumOf([i \in DOMAIN rows |-> Len(rows[i].tds)])
LiCount(rows) ==
    SumOf([i \in DOMAIN rows |->
              SumOf([j \in DOMAIN rows[i].tds |-> Len(rows[i].tds[j].lis)])])

\* a few fixed responses, for the runs that vary the date
SampleCell == [pay |-> <<"won">>, lis |-> <<>>, text |-> <<"dish">>]
SampleMealTable == <<[th |-> <<"lunch">>, tds |-> <<SampleCell>>]>>
SampleMealResponses == {TransportFailure, HttpFailure(SampleMealTable), HttpOk(SampleMealTable)}

SampleDate == Date(2024, 12, 30)

----------------------------------------------------------------------------
(* Inputs of the notice extractor                                          *)

MaxRows == 12
MaxOddRows == 2
MaxBoardRows == 2

D2(n) == <<48 + (n \div 10), 48 + (n % 10)>>

\* "YYYY.MM.DD"
DateStr(y, m, d) == D2(y \div 100) \o D2(y % 100) \o <<46>> \o D2(m) \o <<46>> \o D2(d)

Anchor(board, i) ==
    [tag |-> "a", href |-> <<"/", board, "/", i>>, strong |-> None,
     text |-> <<"sp", "title", "sp">>, new |-> FALSE]

ValidRow(board, i, date) ==
    [pinned |-> FALSE, subject |-> TRUE, date |-> date, anchor |-> Anchor(board, i)]

RowKinds == {"valid", "strongnew", "pinned", "nosubject", "nodate", "noanchor", "nohref"}

\* the row of a kind at position i of a board
RowOf(kind, board, i, date) ==
    LET v == ValidRow(board, i, date)
    IN  IF kind = "valid" THEN v
        ELSE IF kind = "strongnew"
            THEN [v EXCEPT !.anchor.strong = <<"bold", "sp">>, !.anchor.new = TRUE]
        ELSE IF kind = "pinned" THEN [v EXCEPT !.pinned = TRUE]
        ELSE IF kind = "nosubject" THEN [v EXCEPT !.subject = FALSE, !.anchor = NoAnchor]
        ELSE IF kind = "nodate" THEN [v EXCEPT !.date = NoDate]
        ELSE IF kind = "noanchor" THEN [v EXCEPT !.anchor = NoAnchor]
        ELSE [v EXCEPT !.anchor.href = None]

OddRows(rows) == {i \in DOMAIN rows : rows[i] # ValidRow("b", i, DateStr(2024, 3, 1))}

\* the boards of the aggregate runs: short pages whose rows carry one of two
\* dates, or lack the date cell, or lack the href
BoardRowKinds == {"d1", "d2", "nodate", "nohref"}

BoardRow(kind, board, i) ==
    IF kind = "d1" THEN ValidRow(board, i, DateStr(2024, 3, 1))
    ELSE IF kind = "d2" THEN ValidRow(board, i, DateStr(2024, 3, 10))
    ELSE RowOf(kind, board, i, DateStr(2024, 3, 1))

BoardPages(board) ==
    {[i \in 1..Len(kinds) |-> BoardRow(kinds[i], board, i)] :
        kinds \in SeqsUpTo(BoardRowKinds, MaxBoardRows)}

BoardResponses(board) ==
    {TransportFailure}
    \cup {HttpFailure(b) : b \in {<<BoardRow("d1", board, 1)>>}}
    \cup {HttpOk(b) : b \in BoardPages(board)}

----------------------------------------------------------------------------
(* Inputs of the schedule extractor                                        *)

SampleCalendar ==
    [container |-> TRUE,
     items |-> << [dates |-> << <<"03.04">>, <<"06.16", "sp", "~", "sp", "06.22">> >>,
                   events |-> << <<"sem1", "sp", "start">>, <<"sem1", "sp", "final">> >>] >>]

NoContainerPage == [container |-> FALSE, items |-> <<>>]

SampleScheduleResponses ==
    {TransportFailure, HttpFailure(SampleCalendar), HttpOk(NoContainerPage),
     HttpOk(SampleCalendar)}

----------------------------------------------------------------------------
(* Inputs of get_weather                                                   *)

MaxCurItems == 2
MaxFcItems == 3

HHMM(h) == D2(h) \o <<48, 48>>

CurCategories == {"T1H", "REH", "PTY", "RN1"}

\* the values are told apart by the position of their item
CurValues == <<"c1", "c2", "c3", "c4">>
FcValues == <<"v1", "v2", "v3", "v4", "v5">>

FcKinds ==
    ({"SKY"} \X {TodayStr} \X {HHMM(0), HHMM(5), HHMM(23)})
    \cup ({"SKY"} \X {TomorrowStr} \X {HHMM(5), HHMM(23)})
    \cup ({"TMN", "TMX"} \X {TodayStr, TomorrowStr, "D2"} \X {HHMM(6)})
    \cup ({"POP"} \X {TodayStr} \X {HHMM(5)})

CurItemLists ==
    {[i \in 1..Len(cats) |-> [category |-> cats[i], obsrValue |-> CurValues[i]]] :
        cats \in SeqsUpTo(CurCategories, MaxCurItems)}

FcItemLists ==
    {[i \in 1..Len(kinds) |->
        [category |-> kinds[i][1], fcstDate |-> kinds[i][2], fcstTime |-> kinds[i][3],
         fcstValue |-> FcValues[i]]] :
        kinds \in SeqsUpTo(FcKinds, MaxFcItems)}

WeatherOk(items) == [transport |-> "ok", status |-> 200, json |-> "ok", items |-> items]

WeatherFailures ==
    {[transport |-> "timeout", status |-> 0, json |-> "ok", items |-> <<>>],
     [transport |-> "ok", status |-> 500, json |-> "ok", items |-> <<>>],
     [transport |-> "ok", status |-> 200, json |-> "invalid", items |-> <<>>],
     [transport |-> "ok", status |-> 200, json |-> "nostructure", items |-> <<>>]}

WellFormed(resp) == resp.transport = "ok" /\ resp.status = 200 /\ resp.json = "ok"

----------------------------------------------------------------------------
(* Inputs of search_timetable                                              *)

MaxSelectedTimes == 2

DayKeySet == Range(DayKeys)
TimeKeySet == Range(TimeKeys)
FlagKeys == DayKeySet \cup TimeKeySet

YMap(keys) == [k \in keys |-> "Y"]

NoneDict == [isNone |-> TRUE, map |-> EmptyDict]
SomeDict(map) == [isNone |-> FALSE, map |-> map]

SubsetsUpTo(S, n) == {x \in SUBSET S : Cardinality(x) <= n}

\* an entry a client may send that is no selected flag
StrayKeys == {"campus", "mName", "emp_nm", "d1", "t1"}
StrayValues == {"N", "H9"}
StrayEntries == {[k \in {key} |-> v] : key \in StrayKeys, v \in StrayValues}

Request(days, times) ==
    [year |-> "2024", semester |-> "1", campus |-> "H1", dept_code |-> "AAR01_H1",
     keyword |-> "kw", gubun |-> "1", professor |-> "prof", days |-> days, times |-> times]

\* requests whose days and times hold selected flags only
FlagRequests ==
    {Request(d, t) :
        d \in {NoneDict} \cup {SomeDict(YMap(S)) : S \in SUBSET DayKeySet},
        t \in {NoneDict} \cup {SomeDict(YMap(T)) : T \in SubsetsUpTo(TimeKeySet, MaxSelectedTimes)
                                                      \cup {TimeKeySet}}}

\* requests with one more entry in days or in times
StrayRequests ==
    {Request(SomeDict(DictUpdate(YMap(S), e)), SomeDict(YMap(T))) :
        S \in SubsetsUpTo(DayKeySet, 1), T \in SubsetsUpTo(TimeKeySet, 1), e \in StrayEntries}
    \cup
    {Request(SomeDict(YMap(S)), SomeDict(DictUpdate(YMap(T), e))) :
        S \in SubsetsUpTo(DayKeySet, 1), T \in SubsetsUpTo(TimeKeySet, 1), e \in StrayEntries}

----------------------------------------------------------------------------
(* The extractors and the aggregate endpoints as state machines            *)

NoPayload ==
    [selCafId |-> "", selWeekFirstDay |-> 0, selWeekLastDay |-> 0,
     selYear |-> 0, selMonth |-> 0]

NoResponse == [status |-> 0]

Upstreams == {"schedule", "general", "haksa", "meals"}

MealInit(dates, campuses, responses) ==
    /\ today \in dates
    /\ campus_path \in campuses
    /\ mealResp \in responses
    /\ payload = NoPayload
    /\ meals = <<>>
    /\ mpc = "start"

NoticeInit ==
    /\ page = <<>>
    /\ boardResp = HttpOk(<<>>)
    /\ notices = <<>>
    /\ npc = "start"

AggInit(schedules, generals, haksas) ==
    /\ endpoint = "none"
    /\ pc = "idle"
    /\ upSchedule \in schedules
    /\ upGeneral \in generals
    /\ upHaksa \in haksas
    /\ schedule = EmptyDict
    /\ general_notices = <<>>
    /\ haksa_notices = <<>>
    /\ all_notices = <<>>
    /\ response = NoResponse
    /\ calls = [u \in Upstreams |-> 0]

WeatherInit(currents, forecasts) ==
    /\ curResp \in currents
    /\ fcResp \in forecasts
    /\ weather = [status |-> "none"]
    /\ wpc = "start"

TimetableInit(requests) ==
    /\ req \in requests
    /\ posted = EmptyDict
    /\ tstatus = 0
    /\ tpc = "start"

\* the parts of the state that take no part in a run
WeatherOff == WeatherInit({WeatherOk(<<>>)}, {WeatherOk(<<>>)})
TimetableOff == TimetableInit({Request(NoneDict, NoneDict)})
MealsOff == MealInit({Date(2024, 1, 1)}, {"1"}, {TransportFailure})
AggOff == AggInit({TransportFailure}, {TransportFailure}, {TransportFailure})

\* _crawl_meals_by_campus(campus_path), lines 214-337
CrawlMeals ==
    /\ mpc = "start"
    /\ payload' = MealPayload(campus_path, today)
    /\ meals' = crawl_meals_by_campus(campus_path, today, mealResp)
    /\ mpc' = "done"
    /\ UNCHANGED <<today, campus_path, mealResp, noticeVars, aggVars, weatherVars, timetableVars>>

\* the cafeteria table gets one more row, with header cell th (or none)
AddMealRow(th) ==
    /\ mpc = "start"
    /\ Len(mealResp.body) < MaxMealRows
    /\ mealResp' = [mealResp EXCEPT !.body = Append(@, [th |-> th, tds |-> <<>>])]
    /\ UNCHANGED <<today, campus_path, payload, meals, mpc,
                   noticeVars, aggVars, weatherVars, timetableVars>>

\* the last row gets one more data cell
AddCell(pay, text) ==
    /\ mpc = "start"
    /\ mealResp.body # <<>>
    /\ CellCount(mealResp.body) < MaxCells
    /\ mealResp' = [mealResp EXCEPT !.body[Len(mealResp.body)].tds =
                        Append(@, [pay |-> pay, lis |-> <<>>, text |-> text])]
    /\ UNCHANGED <<today, campus_path, payload, meals, mpc,
                   noticeVars, aggVars, weatherVars, timetableVars>>

\* the last data cell, one without text of its own, gets one more list item
AddLi(li) ==
    /\ mpc = "start"
    /\ mealResp.body # <<>>
    /\ LiCount(mealResp.body) < MaxLis
    /\ LET r == Len(mealResp.body)
           c == Len(mealResp.body[r].tds)
       IN  /\ c > 0
           /\ mealResp.body[r].tds[c].text = <<>>
           /\ mealResp' = [mealResp EXCEPT !.body[r].tds[c].lis = Append(@, li)]
    /\ UNCHANGED <<today, campus_path, payload, meals, mpc,
                   noticeVars, aggVars, weatherVars, timetableVars>>

\* the board gets one more row
PublishRow(kind) ==
    /\ npc = "start"
    /\ Len(page) < MaxRows
    /\ kind # "valid" => Cardinality(OddRows(page)) < MaxOddRows
    /\ page' = Append(page, RowOf(kind, "b", Len(page) + 1, DateStr(2024, 3, 1)))
    /\ UNCHANGED <<boardResp, notices, npc, mealVars, aggVars, weatherVars, timetableVars>>

\* crawl_notices(url), lines 181-212, on whatever the upstream answers
CrawlNotices ==
    /\ npc = "start"
    /\ \E resp \in {HttpOk(page), HttpFailure(page), TransportFailure} :
          /\ boardResp' = resp
          /\ notices' = crawl_notices(resp)
    /\ npc' = "done"
    /\ UNCHANGED <<page, mealVars, aggVars, weatherVars, timetableVars>>

\* GET /api/data (get_all_data) or GET /api/global/data (get_global_data)
Receive(e) ==
    /\ pc = "idle"
    /\ endpoint' = e
    /\ pc' = "schedule"
    /\ UNCHANGED <<upSchedule, upGeneral, upHaksa, schedule, general_notices,
                   haksa_notices, all_notices, response, calls, mealVars, noticeVars, weatherVars, timetableVars>>

\* a fetch that is sent again after its first attempt
CalledWithRetry(u) == [calls EXCEPT ![u] = @ + 2]

\* each crawl function sends one request (lines 139, 184, 274)
Called(u) == [calls EXCEPT ![u] = @ + 1]

\* line 374
CallCrawlSchedule ==
    /\ pc = "schedule"
    /\ schedule' = crawl_schedule(upSchedule)
    /\ calls' = Called("schedule")
    /\ pc' = "general"
    /\ UNCHANGED <<endpoint, upSchedule, upGeneral, upHaksa, general_notices,
                   haksa_notices, all_notices, response, mealVars, noticeVars, weatherVars, timetableVars>>

\* line 375
CallCrawlGeneral ==
    /\ pc = "general"
    /\ general_notices' = crawl_notices(upGeneral)
    /\ calls' = Called("general")
    /\ pc' = "haksa"
    /\ UNCHANGED <<endpoint, upSchedule, upGeneral, upHaksa, schedule,
                   haksa_notices, all_notices, response, mealVars, noticeVars, weatherVars, timetableVars>>

\* line 376
CallCrawlHaksa ==
    /\ pc = "haksa"
    /\ haksa_notices' = crawl_notices(upHaksa)
    /\ calls' = Called("haksa")
    /\ pc' = "sort"
    /\ UNCHANGED <<endpoint, upSchedule, upGeneral, upHaksa, schedule,
                   general_notices, all_notices, response, mealVars, noticeVars, weatherVars, timetableVars>>

\* lines 378-383
SortAllNotices ==
    /\ pc = "sort"
    /\ all_notices' = SortNotices(general_notices, haksa_notices)
    /\ pc' = "meals"
    /\ UNCHANGED <<endpoint, upSchedule, upGeneral, upHaksa, schedule,
                   general_notices, haksa_notices, response, calls, mealVars, noticeVars, weatherVars, timetableVars>>

EndpointCampus(e) == IF e = "/api/data" THEN "1" ELSE "2"

\* lines 390 / 405: crawl_meals() or crawl_global_meals()
CallCrawlMeals ==
    /\ pc = "meals"
    /\ campus_path' = EndpointCampus(endpoint)
    /\ payload' = MealPayload(EndpointCampus(endpoint), today)
    /\ meals' = crawl_meals_by_campus(EndpointCampus(endpoint), today, mealResp)
    /\ mpc' = "done"
    /\ calls' = Called("meals")
    /\ pc' = "compose"
    /\ UNCHANGED <<today, mealResp, endpoint, upSchedule, upGeneral, upHaksa, schedule,
                   general_notices, haksa_notices, all_notices, response, noticeVars, weatherVars, timetableVars>>

\* lines 393-398 / 408-419
Compose ==
    /\ pc = "compose"
    /\ response' = [schedule |-> schedule, notices |-> all_notices,
                    meals |-> meals, timestamp |-> "now"]
    /\ pc' = "done"
    /\ UNCHANGED <<endpoint, upSchedule, upGeneral, upHaksa, schedule, general_notices,
                   haksa_notices, all_notices, calls, mealVars, noticeVars, weatherVars, timetableVars>>

\* GET /api/weather, lines 446-623
GetWeather ==
    /\ wpc = "start"
    /\ weather' = get_weather(curResp, fcResp)
    /\ wpc' = "done"
    /\ UNCHANGED <<curResp, fcResp, mealVars, noticeVars, aggVars, timetableVars>>

\* POST /api/timetable, lines 626-688: the form is posted, and the upstream
\* answers or fails (HTTPException 500)
SearchTimetable ==
    /\ tpc = "start"
    /\ posted' = FullParams(req)
    /\ \E ok \in BOOLEAN : tstatus' = IF ok THEN 200 ELSE 500
    /\ tpc' = "done"
    /\ UNCHANGED <<req, mealVars, noticeVars, aggVars, weatherVars>>

NoticesOff == NoticeInit
OthersOff == WeatherOff /\ TimetableOff

InitWeek ==
    MealInit(AllDates, {"1", "2"}, SampleMealResponses) /\ NoticesOff /\ AggOff /\ OthersOff
NextWeek == CrawlMeals
SpecWeek == InitWeek /\ [][NextWeek]_vars

InitMeals ==
    MealInit({SampleDate}, {"1", "2"}, {HttpOk(<<>>)}) /\ NoticesOff /\ AggOff /\ OthersOff
NextMeals ==
    \/ \E th \in ThSet : AddMealRow(th)
    \/ \E pay \in PaySet, text \in MenuTextSet : AddCell(pay, text)
    \/ \E li \in LiSet : AddLi(li)
    \/ CrawlMeals
SpecMeals == InitMeals /\ [][NextMeals]_vars

InitNotices == NoticeInit /\ MealsOff /\ AggOff /\ OthersOff
NextNotices == (\E kind \in RowKinds : PublishRow(kind)) \/ CrawlNotices
SpecNotices == InitNotices /\ [][NextNotices]_vars

InitAgg ==
    /\ AggInit(SampleScheduleResponses, BoardResponses("general"), BoardResponses("haksa"))
    /\ MealInit({SampleDate}, {"1"}, SampleMealResponses)
    /\ NoticesOff
    /\ OthersOff
NextAgg ==
    \/ \E e \in {"/api/data", "/api/global/data"} : Receive(e)
    \/ CallCrawlSchedule
    \/ CallCrawlGeneral
    \/ CallCrawlHaksa
    \/ SortAllNotices
    \/ CallCrawlMeals
    \/ Compose
SpecAgg == InitAgg /\ [][NextAgg]_vars

InitWeather ==
    /\ WeatherInit(WeatherFailures \cup {WeatherOk(items) : items \in CurItemLists},
                   WeatherFailures \cup {WeatherOk(items) : items \in FcItemLists})
    /\ MealsOff /\ NoticesOff /\ AggOff /\ TimetableOff
NextWeather == GetWeather
SpecWeather == InitWeather /\ [][NextWeather]_vars

InitTimetable ==
    /\ TimetableInit(FlagRequests \cup StrayRequests)
    /\ MealsOff /\ NoticesOff /\ AggOff /\ WeatherOff
NextTimetable == SearchTimetable
SpecTimetable == InitTimetable /\ [][NextTimetable]_vars

\* The calendar page for _extract_schedule_dates: the environment builds the
\* list of <li> items node by node.  An item is [dates, events], the texts of
\* its p.list-date and of its p.list-content nodes in document order.
MaxScheduleItems == 2
MaxDateNodes == 2
MaxEventNodes == 2

\* texts of p.list-date: a single day, and a range of three segments with
\* whitespace around some of them
ScheduleDateSet ==
    { <<"sp", "d0", "sp">>,
      <<"d1", "sp", "~", "d2", "~", "sp", "d3", "sp">> }

\* texts of p.list-content: one label for each rule, a label that matches
\* rules 1, 3 and 4 at once, and a label that matches none (제1학기 and
\* 기말시험 not adjacent)
ScheduleEventSet ==
    { <<"sem1", "sp", "start">>,
      <<"sp", "sem1", "sp", "final", "sp">>,
      <<"sem2", "sp", "opening">>,
      <<"sem2", "sp", "final">>,
      <<"sem2", "sp", "final", "sp", "sem1", "sp", "start">>,
      <<"sem1", "x", "final">> }

DateNodeCount(items) == SumOf([i \in DOMAIN items |-> Len(items[i].dates)])
EventNodeCount(items) == SumOf([i \in DOMAIN items |-> Len(items[i].events)])

EmptyCalendar == [container |-> TRUE, items |-> <<>>]

AddScheduleItem ==
    /\ pc = "idle"
    /\ Len(upSchedule.body.items) < MaxScheduleItems
    /\ upSchedule' = [upSchedule EXCEPT
                         !.body.items = Append(@, [dates |-> <<>>, events |-> <<>>])]
    /\ UNCHANGED <<endpoint, pc, upGeneral, upHaksa, schedule, general_notices,
                   haksa_notices, all_notices, response, calls,
                   mealVars, noticeVars, weatherVars, timetableVars>>

AddDateNode(text) ==
    /\ pc = "idle"
    /\ upSchedule.body.items # <<>>
    /\ DateNodeCount(upSchedule.body.items) < MaxDateNodes
    /\ LET k == Len(upSchedule.body.items)
       IN  upSchedule' = [upSchedule EXCEPT !.body.items[k].dates = Append(@, text)]
    /\ UNCHANGED <<endpoint, pc, upGeneral, upHaksa, schedule, general_notices,
                   haksa_notices, all_notices, response, calls,
                   mealVars, noticeVars, weatherVars, timetableVars>>

AddEventNode(text) ==
    /\ pc = "idle"
    /\ upSchedule.body.items # <<>>
    /\ EventNodeCount(upSchedule.body.items) < MaxEventNodes
    /\ LET k == Len(upSchedule.body.items)
       IN  upSchedule' = [upSchedule EXCEPT !.body.items[k].events = Append(@, text)]
    /\ UNCHANGED <<endpoint, pc, upGeneral, upHaksa, schedule, general_notices,
                   haksa_notices, all_notices, response, calls,
                   mealVars, noticeVars, weatherVars, timetableVars>>

\* crawl_schedule on its own: the page is fetched and its items extracted
CrawlSchedule ==
    /\ pc = "idle"
    /\ schedule' = crawl_schedule(upSchedule)
    /\ pc' = "schedule_done"
    /\ UNCHANGED <<endpoint, upSchedule, upGeneral, upHaksa, general_notices,
                   haksa_notices, all_notices, response, calls,
                   mealVars, noticeVars, weatherVars, timetableVars>>

InitSchedule ==
    /\ AggInit({HttpOk(EmptyCalendar)}, {TransportFailure}, {TransportFailure})
    /\ MealsOff /\ NoticesOff /\ OthersOff

NextSchedule ==
    \/ AddScheduleItem
    \/ \E text \in ScheduleDateSet : AddDateNode(text)
    \/ \E text \in ScheduleEventSet : AddEventNode(text)
    \/ CrawlSchedule

SpecSchedule == InitSchedule /\ [][NextSchedule]_vars

----------------------------------------------------------------------------
(* C4: week-window clamping                                                *)

InTodaysMonth(dt) == dt.year = today.year /\ dt.month = today.month

ClampedWindow ==
    LET s == AddDays(today, 0 - Weekday(today))
        e == AddDays(s, 5)
        last == DaysInMonth(today.year, today.month)
    IN  IF InTodaysMonth(s) /\ InTodaysMonth(e) THEN <<s.day, e.day>>
        ELSE IF InTodaysMonth(s) THEN <<s.day, last>>
        ELSE IF InTodaysMonth(e) THEN <<1, e.day>>
        ELSE <<1, last>>

\* C4: for every date today, the posted (selWeekFirstDay, selWeekLastDay) is
\* the Monday..Saturday window of today's week clamped to today's month by
\* the four cases; today = 2024-12-30 posts (30, 31).
C4_WeekWindowClamped ==
    mpc = "done" =>
        /\ <<payload.selWeekFirstDay, payload.selWeekLastDay>> = ClampedWindow
        /\ today = Date(2024, 12, 30) =>
              payload.selWeekFirstDay = 30 /\ payload.selWeekLastDay = 31

\* the window of 2024-12-30 has been computed, and it is the clamped one
C4_Witness ==
    /\ mpc = "done"
    /\ today = Date(2024, 12, 30)
    /\ Weekday(today) = 0
    /\ ~InTodaysMonth(EndOfWeek(today))
    /\ payload.selWeekFirstDay = 30
    /\ payload.selWeekLastDay = 31

----------------------------------------------------------------------------
(* C5: no empty and no "no menu registered" item                           *)

EmittedRows(rows) == {i \in DOMAIN rows : rows[i].th # None /\ rows[i].tds # <<>>}

\* C5: no item of any returned slot has a name that is empty after trimming
\* or contains the "no menu registered" phrase; every row with a header cell
\* and data cells still yields its slot, possibly with no item.
C5_NoEmptyOrUnregisteredMenu ==
    mpc = "done" =>
        /\ \A i \in DOMAIN meals : \A j \in DOMAIN meals[i].menus :
              /\ Strip(meals[i].menus[j].name) # <<>>
              /\ ~Contains(meals[i].menus[j].name, "nomenu")
        /\ ~Failed(mealResp) => Len(meals) = Cardinality(EmittedRows(mealResp.body))

\* a slot was emitted with no item, from a row whose only cell is blank or
\* carries the "no menu registered" phrase
C5_Witness ==
    /\ mpc = "done"
    /\ ~Failed(mealResp)
    /\ Len(mealResp.body) = 1
    /\ Len(mealResp.body[1].tds) = 1
    /\ mealResp.body[1].tds[1].lis = <<>>
    /\ Contains(mealResp.body[1].tds[1].text, "nomenu")
    /\ Len(meals) = 1
    /\ meals[1].menus = <<>>

----------------------------------------------------------------------------
(* C1: the notice cap                                                      *)

\* a row with a subject cell, a date cell and an anchor in the subject cell
ValidNoticeRow(row) == row.subject /\ row.date # NoDate /\ row.anchor.tag = "a"

RECURSIVE ValidRowsOf(_)
ValidRowsOf(rows) ==
    IF rows = <<>> THEN <<>>
    ELSE (IF ValidNoticeRow(Head(rows)) THEN <<Head(rows)>> ELSE <<>>)
         \o ValidRowsOf(Tail(rows))

EveryAnchorHasHref == \A i \in DOMAIN page : page[i].anchor.href # None

\* C1: crawl_notices returns exactly the first min(10, V) valid rows among
\* the non-pinned rows, in document order: malformed rows do not count
\* toward the cap of 10.
C1_FirstTenValidRows ==
    (npc = "done" /\ ~Failed(boardResp) /\ EveryAnchorHasHref) =>
        notices = NoticesOf(FirstRows(ValidRowsOf(SelectNotPinned(page)), 10))

----------------------------------------------------------------------------
(* C3: failure isolation in the aggregate endpoints                        *)

ScheduleFails(up) == up.transport # "ok" \/ up.status >= 400 \/ ~up.body.container

\* the rows the extractor reads: the first 10 of the rows that are not pinned
ReadRows(body) ==
    LET kept == {i \in DOMAIN body : ~body[i].pinned}
    IN  {i \in kept : Cardinality({j \in kept : j <= i}) <= 10}

BoardFails(up) ==
    \/ up.transport # "ok"
    \/ up.status >= 400
    \/ \E i \in ReadRows(up.body) : ValidNoticeRow(up.body[i]) /\ up.body[i].anchor.href = None

MealsFail(up) == up.transport # "ok" \/ up.status >= 400

ScheduleAlone == IF ScheduleFails(upSchedule) THEN EmptyDict
                 ELSE extract_schedule_dates(upSchedule.body.items)

BoardAlone(up) == IF BoardFails(up) THEN <<>> ELSE NoticesOf(VisitedRows(up.body))

MealsAlone == IF MealsFail(mealResp) THEN <<>>
              ELSE ParseMealRows(EndpointCampus(endpoint), mealResp.body)

\* C3: whatever upstream fetches fail, the response has the four keys, a
\* failed extractor contributes its empty value and every other extractor
\* contributes what it yields on its own.
C3_FailureIsolation ==
    pc = "done" =>
        /\ DOMAIN response = {"schedule", "notices", "meals", "timestamp"}
        /\ response.schedule = ScheduleAlone
        /\ response.notices = SortNotices(BoardAlone(upGeneral), BoardAlone(upHaksa))
        /\ response.meals = MealsAlone

\* the calendar and the academic board failed, the general board and the
\* meals did not, and the response carries their values
C3_Witness ==
    /\ pc = "done"
    /\ ScheduleFails(upSchedule)
    /\ BoardFails(upHaksa)
    /\ ~BoardFails(upGeneral)
    /\ ~MealsFail(mealResp)
    /\ response.schedule = EmptyDict
    /\ Len(response.notices) = 2
    /\ Len(response.meals) = 1

----------------------------------------------------------------------------
(* C6: the merged notices                                                  *)

Count(x, seq) == Cardinality({i \in DOMAIN seq : seq[i] = x})

IsPermutation(a, b) ==
    /\ Len(a) = Len(b)
    /\ \A i \in DOMAIN a : Count(a[i], a) = Count(a[i], b)

PositionIn(x, seq) == CHOOSE i \in DOMAIN seq : seq[i] = x

\* C6: the notices of the response are a permutation of general + academic
\* notices, ordered by date string non-increasing, a notice without date key
\* ordered as "0000-00-00" and after every dated notice, equal dates in the
\* order of the concatenation.
C6_MergedNoticesSorted ==
    pc = "done" =>
        LET merged == general_notices \o haksa_notices
            out == response.notices
        IN  /\ IsPermutation(merged, out)
            /\ \A i, j \in DOMAIN out :
                  i < j => ~StrLess(SortKey(out[i]), SortKey(out[j]))
            /\ \A i, j \in DOMAIN out :
                  ("date" \notin DOMAIN out[i] /\ "date" \in DOMAIN out[j]) => j < i
            /\ \A i, j \in DOMAIN merged :
                  (i < j /\ SortKey(merged[i]) = SortKey(merged[j]))
                      => PositionIn(merged[i], out) < PositionIn(merged[j], out)

\* both boards gave notices, an academic notice moved ahead of a general one
\* and two notices of equal date kept the order general, academic
C6_Witness ==
    /\ pc = "done"
    /\ Len(general_notices) = 2
    /\ Len(haksa_notices) = 2
    /\ response.notices # general_notices \o haksa_notices
    /\ \E i, j \in DOMAIN response.notices :
          /\ i < j
          /\ response.notices[i].date = response.notices[j].date
          /\ response.notices[i] \in Range(general_notices)
          /\ response.notices[j] \in Range(haksa_notices)

----------------------------------------------------------------------------
(* C2: the weather sentinel                                                *)

HasCategory(items, cat) == \E i \in DOMAIN items : items[i].category = cat

\* C2: for well-formed upstream responses get_weather returns "success"
\* with the six fields, and a field whose category is absent from the items
\* is exactly "-".
C2_SentinelForAbsentCategory ==
    (wpc = "done" /\ WellFormed(curResp) /\ WellFormed(fcResp)) =>
        /\ weather.status = "success"
        /\ DOMAIN weather.data = {"temp", "humidity", "rainType", "sky", "tmn", "tmx"}
        /\ ~HasCategory(curResp.items, "T1H") => weather.data.temp = "-"
        /\ ~HasCategory(curResp.items, "REH") => weather.data.humidity = "-"
        /\ ~HasCategory(curResp.items, "PTY") => weather.data.rainType = "-"
        /\ ~HasCategory(fcResp.items, "SKY") => weather.data.sky = "-"
        /\ ~HasCategory(fcResp.items, "TMN") => weather.data.tmn = "-"
        /\ ~HasCategory(fcResp.items, "TMX") => weather.data.tmx = "-"

----------------------------------------------------------------------------
(* C9: the SKY selection                                                   *)

ItemsOf(items, cat, dates) ==
    {i \in DOMAIN items : items[i].category = cat /\ items[i].fcstDate \in dates}

\* C9: when a SKY item is dated today, the reported sky is the value of a
\* today-dated SKY item of largest fcstTime, wherever tomorrow-dated SKY
\* items stand in the list; a tomorrow-dated item is used only without one.
C9_SkyPrefersToday ==
    (wpc = "done" /\ weather.status = "success" /\ WellFormed(fcResp)) =>
        LET items == fcResp.items
            todays == ItemsOf(items, "SKY", {TodayStr})
            tomorrows == ItemsOf(items, "SKY", {TomorrowStr})
        IN  /\ todays # {} =>
                  \E i \in todays :
                      /\ \A j \in todays : ~StrLess(items[i].fcstTime, items[j].fcstTime)
                      /\ weather.data.sky = items[i].fcstValue
            /\ (todays = {} /\ tomorrows # {}) =>
                  \E i \in tomorrows : weather.data.sky = items[i].fcstValue

----------------------------------------------------------------------------
(* C10: the TMN / TMX selection                                            *)

FirstOf(S) == CHOOSE i \in S : \A j \in S : i <= j

SelectedTemperature(items, cat) ==
    IF ItemsOf(items, cat, {TargetDate}) # {}
        THEN items[FirstOf(ItemsOf(items, cat, {TargetDate}))].fcstValue
    ELSE IF ItemsOf(items, cat, {TodayStr, TomorrowStr}) # {}
        THEN items[FirstOf(ItemsOf(items, cat, {TodayStr, TomorrowStr}))].fcstValue
    ELSE "-"

\* C10: tmn (tmx) is the value of the TMN (TMX) item dated the target date,
\* else of the first TMN (TMX) item dated today or tomorrow, and "-" only
\* when no such item is dated today or tomorrow.
C10_TemperatureFallback ==
    (wpc = "done" /\ weather.status = "success" /\ WellFormed(fcResp)) =>
        /\ weather.data.tmn = SelectedTemperature(fcResp.items, "TMN")
        /\ weather.data.tmx = SelectedTemperature(fcResp.items, "TMX")

----------------------------------------------------------------------------
(* C7, C8: the timetable flags                                             *)

SelectedFlagsOnly(opt, keys) ==
    opt.isNone \/ (DOMAIN opt.map \subseteq keys /\ \A k \in DOMAIN opt.map : opt.map[k] = "Y")

Selected(opt) == IF opt.isNone THEN {} ELSE DOMAIN opt.map

\* C7: when days is a set S of day flags and times a set T of period flags,
\* each mapped to "Y" (absent or empty included), the posted form has all 18
\* flags, "Y" exactly for those of S and T and "N" for the others.
C7_FlagOverlay ==
    (tpc = "done" /\ SelectedFlagsOnly(req.days, DayKeySet)
                  /\ SelectedFlagsOnly(req.times, TimeKeySet)) =>
        /\ FlagKeys \subseteq DOMAIN posted
        /\ \A k \in FlagKeys :
              posted[k] = IF k \in Selected(req.days) \cup Selected(req.times)
                          THEN "Y" ELSE "N"

\* Monday and two periods were selected and posted as such
C7_Witness ==
    /\ tpc = "done"
    /\ ~req.days.isNone
    /\ DOMAIN req.days.map = {"d1"}
    /\ ~req.times.isNone
    /\ DOMAIN req.times.map = {"t3", "t12"}
    /\ posted["d1"] = "Y"
    /\ posted["d2"] = "N"
    /\ posted["t12"] = "Y"
    /\ posted["t1"] = "N"

\* C8: whatever days and times contain, the non-flag fields of the posted
\* form are the fixed constants and the fields of the request.
C8_OverlayLeavesOtherFields ==
    tpc = "done" =>
        /\ posted["mName"] = "getDataLssnLista"
        /\ posted["cName"] = "hufs.stu1.STU1_C009"
        /\ posted["org_sect"] = "A"
        /\ posted["ledg_year"] = req.year
        /\ posted["ledg_sessn"] = req.semester
        /\ posted["campus"] = req.campus
        /\ posted["crs_strct_cd"] = req.dept_code
        /\ posted["gubun"] = req.gubun
        /\ posted["subjt_nm"] = req.keyword
        /\ posted["emp_nm"] = req.professor

----------------------------------------------------------------------------
(* C11: the price of a menu item                                           *)

\* the data cells of a row that yield an item, in order
RECURSIVE YieldingCells(_, _, _)
YieldingCells(campus, meal_time, tds) ==
    IF tds = <<>> THEN <<>>
    ELSE (IF MenuSkipped(MenuName(campus, meal_time, Head(tds))) THEN <<>> ELSE <<Head(tds)>>)
         \o YieldingCells(campus, meal_time, Tail(tds))

\* the text of the cell's p.pay, the empty string without one
PayText(td) == IF td.pay = None THEN <<>> ELSE Strip(td.pay)

EmittedRowSeq(rows) ==
    SelectSeq(rows, LAMBDA r : r.th # None /\ r.tds # <<>>)

\* C11: in each of the three cell shapes the price of an item is the text of
\* the cell's p.pay when the cell has one, and the empty string only when it
\* has none; the plain-text shape too reports the text of the removed p.pay.
C11_PriceIsPayText ==
    (mpc = "done" /\ ~Failed(mealResp)) =>
        LET rows == EmittedRowSeq(mealResp.body)
        IN  \A i \in DOMAIN meals :
                LET cells == YieldingCells(campus_path, meals[i].time, rows[i].tds)
                IN  \A j \in DOMAIN meals[i].menus :
                        meals[i].menus[j].price = PayText(cells[j])

----------------------------------------------------------------------------
(* C14: the range of the posted week window                                *)

\* the branch of lines 246-254: neither end of the window is in today's month
NeitherEndInTodaysMonth ==
    StartOfWeek(today).month # today.month /\ EndOfWeek(today).month # today.month

\* C14: the posted window satisfies 1 <= selWeekFirstDay <= selWeekLastDay <=
\* (days of today's month), selYear and selMonth are today's, and the full
\* month range of the last branch is taken only on a Sunday that is the 1st.
C14_WindowWithinMonth ==
    mpc = "done" =>
        /\ 1 <= payload.selWeekFirstDay
        /\ payload.selWeekFirstDay <= payload.selWeekLastDay
        /\ payload.selWeekLastDay <= DaysInMonth(today.year, today.month)
        /\ payload.selYear = today.year
        /\ payload.selMonth = today.month
        /\ NeitherEndInTodaysMonth => (Weekday(today) = 6 /\ today.day = 1)

\* Sunday 2024-09-01: the week Monday 08-26 .. Saturday 08-31 lies in August
\* and the whole of September was posted
C14_Witness ==
    /\ mpc = "done"
    /\ today = Date(2024, 9, 1)
    /\ NeitherEndInTodaysMonth
    /\ payload.selWeekFirstDay = 1
    /\ payload.selWeekLastDay = 30
    /\ payload.selMonth = 9

----------------------------------------------------------------------------
(* C12: no retry in the aggregate endpoints                                *)

Composed == DOMAIN response # {"status"}

\* C12: each of the four upstream fetches is issued exactly once per request,
\* whether it succeeds, fails or times out, and the response is composed only
\* after all four have returned.
C12_EachFetchOnce ==
    /\ \A u \in Upstreams : calls[u] <= 1
    /\ Composed => \A u \in Upstreams : calls[u] = 1
    /\ pc = "done" => (Composed /\ \A u \in Upstreams : calls[u] = 1)

\* a request ended with the calendar answering 500, the academic board and
\* the meal fetch timing out and the general board answering: one fetch each
C12_Witness ==
    /\ pc = "done"
    /\ Composed
    /\ upSchedule.transport = "ok" /\ upSchedule.status = 500
    /\ upHaksa.transport = "timeout"
    /\ mealResp.transport = "timeout"
    /\ ~Failed(upGeneral)
    /\ \A u \in Upstreams : calls[u] = 1

----------------------------------------------------------------------------
(* C13: the schedule milestone policy                                      *)

MilestoneKeys == {"first_start", "first_end", "second_start", "second_end"}

\* the rules of lines 171-178 in their order, each as a test on the label
RuleMatches(n, label) ==
    CASE n = 1 -> "sem1" \in Range(label)
                  /\ ({"start", "opening"} \cap Range(label)) # {}
      [] n = 2 -> \E i \in DOMAIN label :
                      /\ i + 2 <= Len(label)
                      /\ label[i] = "sem1" /\ label[i + 1] = "sp" /\ label[i + 2] = "final"
      [] n = 3 -> "sem2" \in Range(label)
                  /\ ({"start", "opening"} \cap Range(label)) # {}
      [] n = 4 -> \E i \in DOMAIN label :
                      /\ i + 2 <= Len(label)
                      /\ label[i] = "sem2" /\ label[i + 1] = "sp" /\ label[i + 2] = "final"

RuleKey(n) ==
    CASE n = 1 -> "first_start" [] n = 2 -> "first_end"
      [] n = 3 -> "second_start" [] n = 4 -> "second_end"

\* the pair is classified to key: key's rule matches and no earlier rule does
ClassifiedTo(label, key) ==
    \E n \in 1..4 : /\ RuleKey(n) = key
                    /\ RuleMatches(n, label)
                    /\ \A m \in 1..(n - 1) : ~RuleMatches(m, label)

\* text without its leading and trailing whitespace
Trimmed(t) ==
    LET inked == {i \in DOMAIN t : t[i] \notin {"sp", "nl"}}
    IN  IF inked = {} THEN <<>>
        ELSE SubSeq(t, CHOOSE i \in inked : \A j \in inked : i <= j,
                       CHOOSE i \in inked : \A j \in inked : j <= i)

Dashes(t) == {i \in DOMAIN t : t[i] = "~"}

\* what precedes the first '~' and what follows the last one
FirstSegment(t) ==
    IF Dashes(t) = {} THEN t
    ELSE SubSeq(t, 1, (CHOOSE i \in Dashes(t) : \A j \in Dashes(t) : i <= j) - 1)

LastSegment(t) ==
    IF Dashes(t) = {} THEN t
    ELSE SubSeq(t, (CHOOSE i \in Dashes(t) : \A j \in Dashes(t) : j <= i) + 1, Len(t))

ExpectedDate(key, date_text) ==
    IF key \in {"first_start", "second_start"} THEN Trimmed(FirstSegment(date_text))
    ELSE Trimmed(LastSegment(date_text))

\* the pairs of the page: <<k, i>> is the i-th date and the i-th label of item
\* k, for i within the shorter of the two lists
PairPositions(items) ==
    {pos \in (DOMAIN items) \X (1..(MaxDateNodes + MaxEventNodes)) :
        pos[2] <= Len(items[pos[1]].dates) /\ pos[2] <= Len(items[pos[1]].events)}

\* document order of the pairs
Before(p, q) == p[1] < q[1] \/ (p[1] = q[1] /\ p[2] <= q[2])

\* C13: the result of _extract_schedule_dates has no key but the four
\* milestone keys; a milestone key is present exactly when some pair (dates
\* and labels of an item paired by index, up to the shorter list) is
\* classified to it by the first matching rule in the order first_start,
\* first_end, second_start, second_end; and its value comes from the last
\* such pair in document order: the trimmed first '~' segment of the date
\* text for a start milestone, the trimmed last segment for an end milestone.
C13_MilestonePolicy ==
    pc = "schedule_done" =>
        LET items == upSchedule.body.items
            hits(key) == {pos \in PairPositions(items) :
                             ClassifiedTo(items[pos[1]].events[pos[2]], key)}
        IN  /\ DOMAIN schedule \subseteq MilestoneKeys
            /\ \A key \in MilestoneKeys :
                   IF hits(key) = {} THEN key \notin DOMAIN schedule
                   ELSE LET last == CHOOSE p \in hits(key) :
                                        \A q \in hits(key) : Before(q, p)
                        IN  /\ key \in DOMAIN schedule
                            /\ schedule[key] =
                                   ExpectedDate(key, items[last[1]].dates[last[2]])

\* two items: the first pairs a single day with a first-semester start, the
\* second pairs a range with a label that matches several rules; the start
\* milestone is the first segment of the range and nothing else is set
C13_Witness ==
    /\ pc = "schedule_done"
    /\ Len(upSchedule.body.items) = 2
    /\ upSchedule.body.items[1] =
           [dates |-> << <<"sp", "d0", "sp">> >>,
            events |-> << <<"sem1", "sp", "start">> >>]
    /\ upSchedule.body.items[2] =
           [dates |-> << <<"d1", "sp", "~", "d2", "~", "sp", "d3", "sp">> >>,
            events |-> << <<"sem2", "sp", "final", "sp", "sem1", "sp", "start">> >>]
    /\ schedule = [k \in {"first_start"} |-> <<"d1">>]

====
